---- MODULE Spec2Model ----
(***************************************************************************)
(* Model of src/aero.py: the class Aerodynamics, its constructor and its   *)
(* two evaluators eval_lift_properties and eval_coeffs.                    *)
(*                                                                         *)
(* Numbers.  A Python float is a fixed-point integer in thousandths        *)
(* (Scale): 0.0200 is 20, 3.5 is 3500, a Mach number 0.6 is 600.  Reynolds *)
(* numbers are plain integers, they only enter through the quotient        *)
(* Re/Re_ref.  sqrt, exp, log and ** are computed in integer arithmetic    *)
(* below; TLC's integers are 32 bit, so every operator keeps its           *)
(* intermediate products under 2^31.                                       *)
(*                                                                         *)
(* Optional arguments.  A keyword argument left at its default None is the *)
(* empty sequence <<>>, a supplied value v is <<v>>.                       *)
(*                                                                         *)
(* Exceptions.  An evaluator's outcome is a record: status "return" with   *)
(* the pair of results, or status "raise" with the exception               *)
(*   ConfigurationError  ValueError("'aero_method' must be ...")  line 99  *)
(*   ValidationError     ValueError("if ... all aerodynamic parameters     *)
(*                       must be provided ...")          lines 95,129,138  *)
(*   DomainError         ValueError("math domain error") of math.sqrt      *)
(*   ZeroDivisionError   a Python float divided by 0.0, or 0.0 ** negative *)
(*   UnboundLocalError   a local read before any branch assigned it        *)
(*   TypeError           arithmetic or comparison on None                  *)
(*   LibraryError        whatever scipy's interp2d raises on absent input  *)
(* steps lists, in order, the computation steps the call entered; the last *)
(* one is where a raising call stopped.                                    *)
(***************************************************************************)
EXTENDS Integers, Sequences, FiniteSets, TLC

VARIABLES aero_method, M_corr, Rey_corr, alpha_vec, pc, ncalls, call, outcome

vars == <<aero_method, M_corr, Rey_corr, alpha_vec, pc, ncalls, call, outcome>>

(***************************************************************************)
(* Fixed-point arithmetic                                                  *)
(***************************************************************************)
Scale == 10 ^ 3

None == <<>>
Some(v) == <<v>>
IsNone(v) == v = <<>>
Val(v) == v[1]

Min(a, b) == IF a <= b THEN a ELSE b
Max(a, b) == IF a >= b THEN a ELSE b
Abs(a) == IF a < 0 THEN -a ELSE a

FxMul(a, b) == (a * b) \div Scale
FxDiv(a, b) == (a * Scale) \div b

\* v bound to a name: F is applied to the value of v, computed once.
Let1(v, F(_)) == CHOOSE r \in {F(x) : x \in {v}} : TRUE

RECURSIVE SqrtSearch(_, _, _)
SqrtSearch(v, lo, hi) ==
    IF lo >= hi THEN lo
    ELSE Let1((lo + hi + 1) \div 2,
              LAMBDA mid : IF mid * mid <= v THEN SqrtSearch(v, mid, hi)
                                             ELSE SqrtSearch(v, lo, mid - 1))

\* math.sqrt(a) for a >= 0: the integer square root of a * Scale.
SqrtFx(a) == Let1(a * Scale, LAMBDA v : SqrtSearch(v, 0, 46340))

\* e^0 .. e^6 in thousandths.
EPowTable == <<1000, 2718, 7389, 20086, 54598, 148413, 403429>>

RECURSIVE ExpSeries(_, _, _, _)
ExpSeries(r, n, term, acc) ==
    IF term = 0 THEN acc
    ELSE Let1((term * r) \div (Scale * n),
              LAMBDA t : Let1(acc + t, LAMBDA sum : ExpSeries(r, n + 1, t, sum)))

\* e^(a/Scale) for 0 <= a < 7 * Scale: e^k from the table times the Taylor
\* series of the fractional part, summed in millionths.
ExpPos(a) ==
    Let1(ExpSeries(a % Scale, 1, Scale * Scale, Scale * Scale),
         LAMBDA er :
            LET ek == EPowTable[(a \div Scale) + 1]
            IN  (ek * (er \div Scale)) \div Scale
                + (ek * (er % Scale)) \div (Scale * Scale))

\* math.exp(a); below e^-7 the value is under one thousandth and is 0.
ExpFx(a) ==
    Let1(a, LAMBDA x :
        IF x >= 0 THEN ExpPos(x)
        ELSE IF x < -6999 THEN 0
        ELSE Let1(ExpPos(-x), LAMBDA p : (Scale * Scale + p \div 2) \div p))

RECURSIVE LnNorm(_, _)
LnNorm(v, k) ==
    IF v >= 141422 THEN Let1(v \div 2, LAMBDA h : LnNorm(h, k + 1))
    ELSE IF v < 70711 THEN Let1(v * 2, LAMBDA d : LnNorm(d, k - 1))
    ELSE <<v, k>>

\* ln m = 2 atanh(z), z = (m-1)/(m+1), by its series; z in hundred-thousandths
LnSeries(z) ==
    Let1((z * z) \div 100000, LAMBDA z2 :
    Let1((z2 * z) \div 100000, LAMBDA z3 :
    Let1((z3 * z2) \div 100000, LAMBDA z5 :
        2 * (z + z3 \div 3 + z5 \div 5 + ((z5 * z2) \div 100000) \div 7))))

\* math.log(a) for a > 0: a = m * 2^k with m in [sqrt(1/2), sqrt(2)), in
\* hundred-thousandths, rounded to thousandths.
LnFx(a) ==
    Let1(LnNorm(a * 100, 0), LAMBDA mk :
    Let1((mk[1] - 100000) * 10000, LAMBDA num :
    Let1(mk[1] + 100000, LAMBDA den :
        (mk[2] * 69315
         + LnSeries((num \div den) * 10 + ((num % den) * 10) \div den) + 50) \div 100)))

\* math.log(1.0 + math.exp(t)), written t + log(1 + exp(-t)) for t > 0: the
\* same real number, with exp(200) kept out of the integers.
Log1pExp(t) ==
    Let1(t, LAMBDA x :
        IF x > 0 THEN x + LnFx(Scale + ExpFx(-x)) ELSE LnFx(Scale + ExpFx(x)))

\* (num / den) ** e for num, den > 0, as exp(e * (log num - log den)); num
\* and den are in the same unit, so the quotient is never rounded to 0.
PowDiv(num, den, e) == ExpFx((e * (LnFx(num) - LnFx(den))) \div Scale)

\* b ** 3.0 for b >= 0
Cube(b) == Let1(b, LAMBDA x : FxMul(FxMul(x, x), x))

Pi == 3142

\* np.deg2rad and np.rad2deg
deg2rad(a) == (a * Pi) \div (180 * Scale)
rad2deg(a) == (a * 180 * Scale) \div Pi

(***************************************************************************)
(* Outcomes of a call                                                      *)
(***************************************************************************)
\* The locals of eval_coeffs a call leaves behind (0 where never assigned).
NoLocals ==
    [f |-> 0, Cl_pre |-> 0, Cd_pre |-> 0, Cl_lin |-> 0, CLMAX |-> 0, CLMIN |-> 0,
     CLLIM |-> 0, RCORR |-> 0, Cd_base |-> 0, DCD |-> 0, CRITMACH |-> 0, CDC |-> 0]

\* return a, b; nonfinite marks a numpy inf/nan in the first result.
Return(a, b, nonfinite, steps, loc) ==
    [status |-> "return", error |-> "none", value |-> <<a, b>>,
     nonfinite |-> nonfinite, steps |-> steps, locals |-> loc]

Raise(err, steps, loc) ==
    [status |-> "raise", error |-> err, value |-> <<>>,
     nonfinite |-> FALSE, steps |-> steps, locals |-> loc]

NoOutcome ==
    [status |-> "none", error |-> "none", value |-> <<>>,
     nonfinite |-> FALSE, steps |-> <<>>, locals |-> NoLocals]

(***************************************************************************)
(* scipy.interpolate.interp2d(alpha_vec, r_R, database, kind='linear') and *)
(* np.interp: linear between the nodes, the edge value outside them.       *)
(***************************************************************************)
Interp1(xs, ys, q) ==
    IF q <= xs[1] THEN ys[1]
    ELSE IF q >= xs[Len(xs)] THEN ys[Len(xs)]
    ELSE LET i == CHOOSE j \in 1..(Len(xs) - 1) : xs[j] <= q /\ q < xs[j + 1]
         IN  ys[i] + ((ys[i + 1] - ys[i]) * (q - xs[i])) \div (xs[i + 1] - xs[i])

Interp2d(xs, ys, z, xq, yq) ==
    Let1([j \in 1..Len(ys) |-> Interp1(xs, z[j], xq)], LAMBDA col : Interp1(ys, col, yq))

(***************************************************************************)
(* 1 - M**2 and the Reynolds regime exponent f                             *)
(***************************************************************************)
MachRoot(M) == Scale - FxMul(M, M)

ReLaminar == 100000
ReTurbulent == 1000000

\* Variant of ReynoldsExponent: the first test written Re <= 1e+5.
ReynoldsExponent_offbyone(Re) ==
    IF Re <= ReLaminar THEN -400
    ELSE IF Re > ReLaminar /\ Re < ReTurbulent THEN -1000
    ELSE -150

\* lines 203-208
ReynoldsExponent(Re) ==
    IF Re < ReLaminar THEN -400
    ELSE IF Re >= ReLaminar /\ Re < ReTurbulent THEN -1000
    ELSE -150

\* Variant of PostProcessApplies: line 202 without its test.
PostProcessApplies_always(self) == TRUE

\* line 202: if self.aero_method != 'xRotor'
PostProcessApplies(self) == self.aero_method # "xRotor"

(***************************************************************************)
(* eval_coeffs, lines 202-215: the post-processing and the return.  bound  *)
(* tells whether a branch assigned lift_coeff and drag_coeff; is_np        *)
(* whether lift_coeff is a numpy scalar (the interp2d result), whose       *)
(* division by 0.0 gives inf and a warning where a Python float raises.    *)
(***************************************************************************)
PostProcess(self, a, bound, lift, drag, is_np, steps, loc) ==
    IF ~PostProcessApplies(self)
    THEN IF bound THEN Return(lift, drag, FALSE, steps, loc)
                  ELSE Raise("UnboundLocalError", steps, loc)
    ELSE
    Let1(ReynoldsExponent(a.Re), LAMBDA f :
    Let1([loc EXCEPT !.f = f], LAMBDA loc1 :
    Let1(Append(steps, "reynolds_f"), LAMBDA s1 :
    Let1(IF self.Rey_corr THEN Append(s1, "reynolds_scale") ELSE s1, LAMBDA s2 :
    Let1(IF self.M_corr THEN Append(s2, "mach_div") ELSE s2, LAMBDA s3 :
        IF self.Rey_corr /\ ~bound THEN Raise("UnboundLocalError", s2, loc1)
        ELSE IF self.Rey_corr /\ (a.Re_ref = 0 \/ a.Re = 0)
        THEN Raise("ZeroDivisionError", s2, loc1)
        ELSE
        Let1(IF self.Rey_corr THEN FxMul(drag, PowDiv(a.Re, a.Re_ref, f)) ELSE drag,
             LAMBDA drag2 :
            IF ~self.M_corr
            THEN IF bound THEN Return(lift, drag2, FALSE, s2, loc1)
                          ELSE Raise("UnboundLocalError", s2, loc1)
            ELSE IF ~bound THEN Raise("UnboundLocalError", s3, loc1)
            ELSE IF MachRoot(a.M) < 0 THEN Raise("DomainError", s3, loc1)
            ELSE Let1(SqrtFx(MachRoot(a.M)), LAMBDA root :
                IF root = 0
                THEN IF is_np THEN Return(0, drag2, TRUE, s3, loc1)
                              ELSE Raise("ZeroDivisionError", s3, loc1)
                ELSE Return(FxDiv(lift, root), drag2, FALSE, s3, loc1))))))))

(***************************************************************************)
(* eval_coeffs, 'xRotor' branch, lines 136-200                             *)
(***************************************************************************)
CDMSTALL == 100
CDMFACTOR == 10000
CLMFACTOR == 250
MEXP == 3000
CDMDD == 2
FAC == 1000
ExpCap == 200000

XRotorParams ==
    {"Cl_alpha", "alpha_0_lift", "Cl_alpha_stall", "Cl_max", "Cl_min",
     "Cl_incr_to_stall", "Cd_min", "Cl_at_cd_min", "dCd_dCl2", "Mach_crit",
     "Re_scaling_exp"}

\* Variant of XRotorMissing: the list of line 137 without its last entry.
XRotorMissing_skips_last(a) == \E n \in XRotorParams \ {"Re_scaling_exp"} : IsNone(a[n])

\* line 137: any(var is None for var in [...])
XRotorMissing(a) == \E n \in XRotorParams : IsNone(a[n])

\* A parameter that is None where the arithmetic reads it (Re_scaling_exp is
\* read only if Re > 0): Python raises TypeError.
XRotorReadsNone(a) ==
    \E n \in XRotorParams : IsNone(a[n]) /\ (n = "Re_scaling_exp" => a.Re > 0)

\* Variant of CLLIMof: ECMAX and ECMIN exchanged in line 161.
CLLIMof_swapped(lift, CLMAX, CLMIN, incr) ==
    Let1(Min(ExpCap, FxDiv(CLMIN - lift, incr)), LAMBDA XMAX :
    Let1(Min(ExpCap, FxDiv(lift - CLMAX, incr)), LAMBDA XMIN :
        FxMul(incr, Log1pExp(XMAX) - Log1pExp(XMIN))))

\* lines 159-161, with ECMAX = exp(XMAX), ECMIN = exp(XMIN) and
\* log((1 + ECMAX) / (1 + ECMIN)) = log(1 + ECMAX) - log(1 + ECMIN)
CLLIMof(lift, CLMAX, CLMIN, incr) ==
    Let1(Min(ExpCap, FxDiv(lift - CLMAX, incr)), LAMBDA XMAX :
    Let1(Min(ExpCap, FxDiv(CLMIN - lift, incr)), LAMBDA XMIN :
        FxMul(incr, Log1pExp(XMAX) - Log1pExp(XMIN))))

\* Variant of CDCof: line 190 without the test of line 187.
CDCof_unguarded(M, CRITMACH) ==
    IF M < CRITMACH THEN -FxMul(CDMFACTOR, Cube(CRITMACH - M))
    ELSE FxMul(CDMFACTOR, Cube(M - CRITMACH))

\* lines 187-190
CDCof(M, CRITMACH) ==
    IF M < CRITMACH THEN 0 ELSE FxMul(CDMFACTOR, Cube(M - CRITMACH))

\* lines 146-200 for 1 - M**2 > 0: the locals, Cl_pre and Cd_pre being the
\* lift_coeff and drag_coeff that reach line 202.
XRotorLocals(a) ==
    LET M            == a.M
        Cl_alpha     == Val(a.Cl_alpha)
        Cl_at_cd_min == Val(a.Cl_at_cd_min)
        Mach_crit    == Val(a.Mach_crit)
        incr         == Val(a.Cl_incr_to_stall)
        FSTALL       == FxDiv(Val(a.Cl_alpha_stall), Cl_alpha)
    IN
    Let1(FxDiv(Scale, SqrtFx(MachRoot(M))), LAMBDA PG :
    Let1(FxMul(FxMul(Cl_alpha, PG), a.AoA - Val(a.alpha_0_lift)), LAMBDA Cl_lin :
    Let1(PowDiv(CDMSTALL, CDMFACTOR, FxDiv(Scale, MEXP)), LAMBDA DMSTALL :
    Let1(Max(0, FxDiv(Mach_crit + DMSTALL - M, CLMFACTOR)) + Cl_at_cd_min, LAMBDA CLMAXM :
    Let1(Min(Val(a.Cl_max), CLMAXM), LAMBDA CLMAX :
    Let1(Min(0, -FxDiv(Mach_crit + DMSTALL - M, CLMFACTOR)) + Cl_at_cd_min, LAMBDA CLMINM :
    Let1(Max(Val(a.Cl_min), CLMINM), LAMBDA CLMIN :
    Let1(CLLIMof(Cl_lin, CLMAX, CLMIN, incr), LAMBDA CLLIM :
    Let1(Cl_lin - FxMul(Scale - FSTALL, CLLIM), LAMBDA lift :
    Let1(IF a.Re <= 0 THEN Scale
         ELSE PowDiv(a.Re, a.Re_ref, Val(a.Re_scaling_exp)), LAMBDA RCORR :
    Let1(FxMul(Val(a.Cd_min)
               + FxMul(Val(a.dCd_dCl2), FxMul(lift - Cl_at_cd_min, lift - Cl_at_cd_min)),
               RCORR), LAMBDA Cd_base :
    Let1(FxDiv(FxMul(Scale - FSTALL, CLLIM), FxMul(PG, Cl_alpha)), LAMBDA DCDX :
    Let1(2 * FxMul(DCDX, DCDX), LAMBDA DCD :
    Let1(PowDiv(CDMDD, CDMFACTOR, FxDiv(Scale, MEXP)), LAMBDA DMDD :
    Let1(Mach_crit - FxMul(CLMFACTOR, Abs(lift - Cl_at_cd_min)) - DMDD, LAMBDA CRITMACH :
    Let1(CDCof(M, CRITMACH), LAMBDA CDC :
        [f |-> 0, Cl_pre |-> lift, Cd_pre |-> FxMul(FAC, Cd_base) + DCD + CDC,
         Cl_lin |-> Cl_lin, CLMAX |-> CLMAX, CLMIN |-> CLMIN, CLLIM |-> CLLIM,
         RCORR |-> RCORR, Cd_base |-> Cd_base, DCD |-> DCD,
         CRITMACH |-> CRITMACH, CDC |-> CDC]))))))))))))))))

(***************************************************************************)
(* eval_coeffs, lines 106-215                                              *)
(***************************************************************************)
ClClamp == 3500
CdFlatPlate == 20

\* lines 122-124, root being math.sqrt(1 - M**2) > 0
FlatPlateCl(AoA, root) ==
    Let1(FxDiv(FxMul(2 * Pi, AoA), root), LAMBDA cl : Max(Min(cl, ClClamp), -ClClamp))

\* line 128: any(var is None for var in [self.alpha_vec, x, r_R, ...])
XFoilMissing(self, a) ==
    \/ IsNone(self.alpha_vec)
    \/ \E n \in {"x", "r_R", "Cl_database", "Cd_database"} : IsNone(a[n])

eval_coeffs(self, a) ==
    IF self.aero_method = "flat_plate" THEN
        IF MachRoot(a.M) < 0
        THEN Raise("DomainError", <<"flat_plate_coeffs">>, NoLocals)
        ELSE Let1(SqrtFx(MachRoot(a.M)), LAMBDA root :
            IF root = 0
            THEN Raise("ZeroDivisionError", <<"flat_plate_coeffs">>, NoLocals)
            ELSE Let1(FlatPlateCl(a.AoA, root), LAMBDA lift :
                PostProcess(self, a, TRUE, lift, CdFlatPlate, FALSE,
                            <<"flat_plate_coeffs">>,
                            [NoLocals EXCEPT !.Cl_pre = lift, !.Cd_pre = CdFlatPlate])))
    ELSE IF self.aero_method = "xFoil" THEN
        IF XFoilMissing(self, a) THEN Raise("ValidationError", <<>>, NoLocals)
        ELSE
        Let1(Interp2d(Val(self.alpha_vec), Val(a.r_R), Val(a.Cl_database), a.AoA, Val(a.x)),
             LAMBDA lift :
        Let1(Interp2d(Val(self.alpha_vec), Val(a.r_R), Val(a.Cd_database), a.AoA, Val(a.x)),
             LAMBDA drag :
            PostProcess(self, a, TRUE, lift, drag, TRUE, <<"interp2d">>,
                        [NoLocals EXCEPT !.Cl_pre = lift, !.Cd_pre = drag])))
    ELSE IF self.aero_method = "xRotor" THEN
        IF XRotorMissing(a) THEN Raise("ValidationError", <<>>, NoLocals)
        ELSE IF MachRoot(a.M) < 0 THEN Raise("DomainError", <<"xRotor_lift">>, NoLocals)
        ELSE IF SqrtFx(MachRoot(a.M)) = 0
        THEN Raise("ZeroDivisionError", <<"xRotor_lift">>, NoLocals)
        ELSE IF XRotorReadsNone(a) THEN Raise("TypeError", <<"xRotor_lift">>, NoLocals)
        ELSE Let1(XRotorLocals(a), LAMBDA loc :
                PostProcess(self, a, TRUE, loc.Cl_pre, loc.Cd_pre, FALSE,
                            <<"xRotor_lift", "xRotor_drag">>, loc))
    ELSE PostProcess(self, a, FALSE, 0, 0, FALSE, <<>>, NoLocals)

(***************************************************************************)
(* eval_lift_properties, lines 68-104                                      *)
(***************************************************************************)
MachAdvisory == 700

\* np.linspace(-6, 6, 10), in thousandths of a degree
Linspace == [i \in 1..10 |-> -6000 + ((i - 1) * 12000) \div 9]

\* Variant of LiftReturn: line 102 without the test of line 101.
LiftReturn_ignores_flag(self, M, Cl_alpha, alpha_0_lift, steps) ==
    IF MachRoot(M) < 0 THEN Raise("DomainError", Append(steps, "mach_div"), NoLocals)
    ELSE Let1(SqrtFx(MachRoot(M)), LAMBDA root :
        IF root = 0
        THEN Return(0, deg2rad(alpha_0_lift), TRUE, Append(steps, "mach_div"), NoLocals)
        ELSE Return(rad2deg(FxDiv(Cl_alpha, root)), deg2rad(alpha_0_lift),
                    FALSE, Append(steps, "mach_div"), NoLocals))

\* lines 101-104: the Mach correction of Cl_alpha (a numpy scalar in every
\* branch, so a division by 0.0 gives inf) and the return.
LiftReturn(self, M, Cl_alpha, alpha_0_lift, steps) ==
    IF ~self.M_corr
    THEN Return(rad2deg(Cl_alpha), deg2rad(alpha_0_lift), FALSE, steps, NoLocals)
    ELSE IF MachRoot(M) < 0 THEN Raise("DomainError", Append(steps, "mach_div"), NoLocals)
    ELSE Let1(SqrtFx(MachRoot(M)), LAMBDA root :
        IF root = 0
        THEN Return(0, deg2rad(alpha_0_lift), TRUE, Append(steps, "mach_div"), NoLocals)
        ELSE Return(rad2deg(FxDiv(Cl_alpha, root)), deg2rad(alpha_0_lift),
                    FALSE, Append(steps, "mach_div"), NoLocals))

\* lines 82-91: Cl_alpha and alpha_0_lift from the polar
XFoilLift(self, a) ==
    LET f_cl(alpha) == Interp2d(Val(self.alpha_vec), Val(a.r_R), Val(a.Cl_database),
                                alpha, Val(a.x))
    IN  Let1([i \in 1..10 |-> f_cl(Linspace[i])], LAMBDA Cl :
            [Cl_alpha |-> FxDiv(f_cl(2000) - f_cl(-2000), 4000),
             alpha_0_lift |-> Interp1(Cl, Linspace, 0)])

eval_lift_properties(self, a) ==
    IF IsNone(a.M) THEN Raise("TypeError", <<>>, NoLocals)
    ELSE
    LET M  == Val(a.M)
        s0 == IF M > MachAdvisory THEN <<"advisory">> ELSE <<>>
    IN  IF self.aero_method = "flat_plate"
        THEN LiftReturn(self, M, deg2rad(2 * Pi), 0, Append(s0, "flat_plate_slope"))
        ELSE IF self.aero_method = "xFoil" THEN
            IF \/ IsNone(self.alpha_vec)
               \/ \E n \in {"x", "r_R", "Cl_database"} : IsNone(a[n])
            THEN Raise("LibraryError", Append(s0, "interp2d"), NoLocals)
            ELSE Let1(XFoilLift(self, a), LAMBDA p :
                    LiftReturn(self, M, p.Cl_alpha, p.alpha_0_lift, Append(s0, "interp2d")))
        ELSE IF self.aero_method = "xRotor" THEN
            IF IsNone(a.Cl_alpha) \/ IsNone(a.alpha_0_lift)
            THEN Raise("ValidationError", s0, NoLocals)
            ELSE LiftReturn(self, M, deg2rad(Val(a.Cl_alpha)), Val(a.alpha_0_lift),
                            Append(s0, "xRotor_slope"))
        ELSE Raise("ConfigurationError", s0, NoLocals)

(***************************************************************************)
(* The evaluators' inputs                                                  *)
(***************************************************************************)
AoAMax == 2
MaxCalls == 2

Methods == {"flat_plate", "xFoil", "xRotor", "thin_airfoil"}

AoAValues == {k * 300 : k \in (-AoAMax)..AoAMax}
MachValues == {0, 600, 800, 1000, 1250}

\* <<Re, Re_ref>>
ReCases ==
    {<<0, 1000000>>, <<99999, 1000000>>, <<100000, 1000000>>,
     <<999999, 100000>>, <<1000000, 100000>>, <<2000000, 1000000>>}

\* A polar table: alpha_vec in thousandths of a degree, r_R, and the grids
\* indexed [station][angle].
AlphaAxis == <<-10000, 0, 10000>>
RRKnown == <<0, 1000>>
ClTable == << <<-900, 200, 1300>>, <<-1000, 100, 1200>> >>
CdTable == << <<30, 10, 30>>, <<40, 12, 40>> >>

TableGiven ==
    [x |-> 500, r_R |-> RRKnown, Cl_database |-> ClTable, Cd_database |-> CdTable]

\* The parameters of the usage example, lines 294-296, and a second airfoil.
AirfoilA ==
    [alpha_0_lift |-> 0, Cl_alpha |-> 6280, Cl_alpha_stall |-> 100, Cl_max |-> 1500,
     Cl_min |-> -500, Cl_incr_to_stall |-> 100, Cd_min |-> 13, Cl_at_cd_min |-> 500,
     dCd_dCl2 |-> 4, Mach_crit |-> 800, Re_scaling_exp |-> -150]

AirfoilB ==
    [alpha_0_lift |-> -100, Cl_alpha |-> 5000, Cl_alpha_stall |-> 200, Cl_max |-> 1200,
     Cl_min |-> -800, Cl_incr_to_stall |-> 200, Cd_min |-> 10, Cl_at_cd_min |-> 300,
     dCd_dCl2 |-> 10, Mach_crit |-> 500, Re_scaling_exp |-> -400]

NoKwargs == [n \in {} |-> None]
Drop(r, n) == [k \in DOMAIN r \ {n} |-> r[k]]

CoeffsOptional == {"x", "r_R", "Cl_database", "Cd_database"} \cup XRotorParams
LiftOptional == {"Cl_database", "r_R", "x", "alpha_0_lift", "Cl_alpha"}

\* The call eval_coeffs(AoA, Re_ref, Re, M, **given)
CoeffsArgs(AoA, re, M, given) ==
    [n \in {"AoA", "Re_ref", "Re", "M"} \cup CoeffsOptional |->
        CASE n = "AoA" -> AoA
          [] n = "Re" -> re[1]
          [] n = "Re_ref" -> re[2]
          [] n = "M" -> M
          [] OTHER -> IF n \in DOMAIN given THEN Some(given[n]) ELSE None]

\* The call eval_lift_properties(M = M, **given)
LiftArgs(M, given) ==
    [n \in {"M"} \cup LiftOptional |->
        IF n = "M" THEN M
        ELSE IF n \in DOMAIN given THEN Some(given[n]) ELSE None]

\* The keyword arguments a caller passes to an evaluator of each variant
\* (lines 284-303), complete and with one left out.
CoeffsKwargs(method) ==
    IF method = "xFoil"
    THEN {NoKwargs, TableGiven} \cup {Drop(TableGiven, n) : n \in DOMAIN TableGiven}
    ELSE IF method = "xRotor"
    THEN {NoKwargs, AirfoilA, AirfoilB} \cup {Drop(AirfoilA, n) : n \in XRotorParams}
    ELSE {NoKwargs, AirfoilA}

LiftKwargs(method) ==
    LET table == Drop(TableGiven, "Cd_database")
        foil  == [alpha_0_lift |-> AirfoilA.alpha_0_lift, Cl_alpha |-> AirfoilA.Cl_alpha]
    IN  IF method = "xFoil"
        THEN {NoKwargs, table} \cup {Drop(table, n) : n \in DOMAIN table}
        ELSE IF method = "xRotor"
        THEN {NoKwargs, foil} \cup {Drop(foil, n) : n \in DOMAIN foil}
        ELSE {NoKwargs}

CoeffsCalls(method) ==
    {CoeffsArgs(AoA, re, M, g) :
        AoA \in AoAValues, re \in ReCases, M \in MachValues, g \in CoeffsKwargs(method)}

LiftCalls(method) ==
    {LiftArgs(M, g) :
        M \in {Some(m) : m \in MachValues} \cup {None}, g \in LiftKwargs(method)}

(***************************************************************************)
(* The evaluator object and its callers                                    *)
(***************************************************************************)
self ==
    [aero_method |-> aero_method, M_corr |-> M_corr, Rey_corr |-> Rey_corr,
     alpha_vec |-> alpha_vec]

NoCall == [op |-> "none", args |-> NoKwargs]

\* __init__, lines 34-39: alpha_vec exists only for 'xFoil' (None otherwise)
Init ==
    /\ aero_method \in Methods
    /\ M_corr \in BOOLEAN
    /\ Rey_corr \in BOOLEAN
    /\ alpha_vec \in IF aero_method = "xFoil" THEN {None, Some(AlphaAxis)} ELSE {None}
    /\ pc = "idle"
    /\ ncalls = 0
    /\ call = NoCall
    /\ outcome = NoOutcome

\* Variant of EvalLiftProperties: line 88's axis stored as self.alpha_vec.
EvalLiftProperties_stores_axis ==
    /\ pc = "idle"
    /\ ncalls < MaxCalls
    /\ \E a \in LiftCalls(aero_method), obj \in {self} :
          /\ call' = [op |-> "eval_lift_properties", args |-> a]
          /\ outcome' = eval_lift_properties(obj, a)
    /\ pc' = "done"
    /\ ncalls' = ncalls + 1
    /\ alpha_vec' = IF aero_method = "xFoil" THEN Some(Linspace) ELSE alpha_vec
    /\ UNCHANGED <<aero_method, M_corr, Rey_corr>>

EvalLiftProperties ==
    /\ pc = "idle"
    /\ ncalls < MaxCalls
    /\ \E a \in LiftCalls(aero_method), obj \in {self} :
          /\ call' = [op |-> "eval_lift_properties", args |-> a]
          /\ outcome' = eval_lift_properties(obj, a)
    /\ pc' = "done"
    /\ ncalls' = ncalls + 1
    /\ UNCHANGED <<aero_method, M_corr, Rey_corr, alpha_vec>>

EvalCoeffs ==
    /\ pc = "idle"
    /\ ncalls < MaxCalls
    /\ \E a \in CoeffsCalls(aero_method), obj \in {self} :
          /\ call' = [op |-> "eval_coeffs", args |-> a]
          /\ outcome' = eval_coeffs(obj, a)
    /\ pc' = "done"
    /\ ncalls' = ncalls + 1
    /\ UNCHANGED <<aero_method, M_corr, Rey_corr, alpha_vec>>

\* The caller takes the result (or catches the exception) and goes on.
Resume ==
    /\ pc = "done"
    /\ pc' = "idle"
    /\ call' = NoCall
    /\ outcome' = NoOutcome
    /\ UNCHANGED <<aero_method, M_corr, Rey_corr, alpha_vec, ncalls>>

Next == EvalLiftProperties \/ EvalCoeffs \/ Resume

Spec == Init /\ [][Next]_vars

(***************************************************************************)
(* Properties                                                              *)
(***************************************************************************)
Done == pc = "done"
IsCoeffs == Done /\ call.op = "eval_coeffs"
IsLift == Done /\ call.op = "eval_lift_properties"
Returned == outcome.status = "return"
Raised(err) == outcome.status = "raise" /\ outcome.error = err
Entered(step) == \E i \in DOMAIN outcome.steps : outcome.steps[i] = step
Times(step) == Cardinality({i \in DOMAIN outcome.steps : outcome.steps[i] = step})
Cl == outcome.value[1]
Cd == outcome.value[2]

\* The call passes its flow state (eval_lift_properties defaults M to None).
MachGiven == IsCoeffs \/ (IsLift /\ ~IsNone(call.args.M))
Mach == IF IsCoeffs THEN call.args.M ELSE Val(call.args.M)

\* A call stopped by the Mach singularity: math.sqrt of a negative number or
\* a division by sqrt(0), in a step that divides by sqrt(1 - M**2).
MachFailure ==
    /\ outcome.status = "raise"
    /\ outcome.error \in {"DomainError", "ZeroDivisionError"}
    /\ outcome.steps # <<>>
    /\ outcome.steps[Len(outcome.steps)] \in {"mach_div", "flat_plate_coeffs", "xRotor_lift"}

\* C1: an evaluator of an unknown variant raises the configuration error in
\* every call, of eval_lift_properties and of eval_coeffs, before any
\* coefficient computation or post-processing step runs.
C1_UnknownVariantRaisesConfigurationError ==
    (Done /\ MachGiven /\ aero_method \notin {"flat_plate", "xFoil", "xRotor"})
        => /\ Raised("ConfigurationError")
           /\ \A i \in DOMAIN outcome.steps : outcome.steps[i] = "advisory"

\* C2: eval_coeffs of the 'xRotor' variant with any of the eleven parameters
\* absent raises the validation error before all arithmetic, whatever AoA,
\* M, Re and Re_ref are, and uses no default; with all eleven supplied the
\* validation error is never raised.
C2_MissingParameterIsValidationError ==
    (IsCoeffs /\ aero_method = "xRotor")
        => IF \E n \in XRotorParams : call.args[n] = None
           THEN /\ Raised("ValidationError")
                /\ outcome.steps = <<>>
                /\ outcome.value = <<>>
                /\ outcome.locals = NoLocals
           ELSE ~Raised("ValidationError")

C2_Witness ==
    /\ IsCoeffs /\ aero_method = "xRotor"
    /\ call.args.Re_scaling_exp = None
    /\ call.args.Cl_alpha # None
    /\ call.args.M >= Scale
    /\ Raised("ValidationError")

\* C3: an evaluation of the 'xFoil' variant without a table, its axes or a
\* span fraction fails with the validation error before any interpolation,
\* in eval_coeffs and in eval_lift_properties alike.
C3_TabulatedAbsentInputIsValidationError ==
    (Done /\ MachGiven /\ aero_method = "xFoil"
          /\ \/ alpha_vec = None
             \/ \E n \in {"x", "r_R", "Cl_database"} : call.args[n] = None
             \/ (IsCoeffs /\ call.args.Cd_database = None))
        => /\ Raised("ValidationError")
           /\ ~Entered("interp2d")

\* C4: the result of eval_coeffs of the 'xRotor' variant is the same under
\* every setting of M_corr and Rey_corr, and neither post-processing step
\* runs; for 'flat_plate' and 'xFoil' each flag selects its step: Rey_corr
\* the scaling of Cd by (Re/Re_ref)^f, M_corr the division of Cl by
\* sqrt(1 - M^2).
C4_XRotorIgnoresCorrectionFlags ==
    IsCoeffs =>
        /\ aero_method = "xRotor" =>
              /\ \A mc \in BOOLEAN, rc \in BOOLEAN :
                    eval_coeffs([self EXCEPT !.M_corr = mc, !.Rey_corr = rc], call.args)
                        = outcome
              /\ ~Entered("reynolds_f") /\ ~Entered("reynolds_scale") /\ ~Entered("mach_div")
        /\ (aero_method \in {"flat_plate", "xFoil"} /\ Returned) =>
              /\ Entered("reynolds_scale") <=> Rey_corr
              /\ Entered("mach_div") <=> M_corr
              /\ Cd = IF Rey_corr
                      THEN FxMul(outcome.locals.Cd_pre,
                                 PowDiv(call.args.Re, call.args.Re_ref, outcome.locals.f))
                      ELSE outcome.locals.Cd_pre
              /\ ~M_corr => Cl = outcome.locals.Cl_pre
              /\ (M_corr /\ ~outcome.nonfinite) =>
                    Cl = FxDiv(outcome.locals.Cl_pre, SqrtFx(Scale - FxMul(Mach, Mach)))

C4_Witness ==
    /\ IsCoeffs /\ aero_method = "xRotor" /\ Returned
    /\ M_corr /\ Rey_corr
    /\ call.args.M = 600 /\ call.args.Re = 99999
    /\ Cl = outcome.locals.Cl_pre /\ Cd = outcome.locals.Cd_pre

\* clamp(2 pi AoA / sqrt(1 - M^2), -3.5, +3.5)
ClampedFlatPlateCl(AoA, M) ==
    LET cl == ((((2 * 3142 * AoA) \div 1000) * 1000) \div SqrtFx(1000 - (M * M) \div 1000))
    IN  IF cl > 3500 THEN 3500 ELSE IF cl < -3500 THEN -3500 ELSE cl

C6_ReynoldsExponentByRegime ==
    (IsCoeffs /\ aero_method \in {"flat_plate", "xFoil"} /\ Entered("reynolds_f"))
        => LET Re == call.args.Re
               f  == IF Re < 100000 THEN -400 ELSE IF Re < 1000000 THEN -1000 ELSE -150
           IN  /\ outcome.locals.f = f
               /\ Returned =>
                     /\ Times("reynolds_scale") = IF Rey_corr THEN 1 ELSE 0
                     /\ Cd = IF Rey_corr
                             THEN FxMul(outcome.locals.Cd_pre, PowDiv(Re, call.args.Re_ref, f))
                             ELSE outcome.locals.Cd_pre

C6_Witness ==
    /\ IsCoeffs /\ aero_method = "flat_plate" /\ Returned /\ Rey_corr
    /\ call.args.Re = 100000
    /\ outcome.locals.f = -1000
    /\ Cd > outcome.locals.Cd_pre

\* The call supplies everything its variant reads.
LiftInputsGiven ==
    /\ IsLift /\ MachGiven
    /\ aero_method \in {"flat_plate", "xFoil", "xRotor"}
    /\ aero_method = "xFoil" =>
          /\ alpha_vec # None
          /\ \A n \in {"x", "r_R", "Cl_database"} : call.args[n] # None
    /\ aero_method = "xRotor" =>
          \A n \in {"Cl_alpha", "alpha_0_lift"} : call.args[n] # None
CoeffsInputsGiven ==
    /\ IsCoeffs
    /\ aero_method \in {"flat_plate", "xFoil", "xRotor"}
    /\ aero_method = "xFoil" =>
          /\ alpha_vec # None
          /\ \A n \in {"x", "r_R", "Cl_database", "Cd_database"} : call.args[n] # None
    /\ aero_method = "xRotor" => \A n \in XRotorParams : call.args[n] # None

\* C7 as claimed: the Mach-singularity failure is tied to M_corr:
\* eval_lift_properties with M_corr and M >= 1 fails with the domain error
\* and returns nothing, without M_corr it returns normally for every M >= 0;
\* eval_coeffs fails for M >= 1 only when M_corr is set; the M > 0.7 advisory
\* alone never aborts a call.
C7_MachFailureOnlyUnderMachCorrection ==
    /\ (LiftInputsGiven /\ M_corr /\ Mach >= Scale)
          => Raised("DomainError") /\ outcome.value = <<>>
    /\ (LiftInputsGiven /\ ~M_corr) => Returned /\ ~outcome.nonfinite
    /\ (IsCoeffs /\ MachFailure) => M_corr /\ Mach >= Scale
    /\ (LiftInputsGiven /\ Mach > 700 /\ Mach < Scale) => Entered("advisory") /\ Returned

\* C7 as amended: eval_lift_properties with M_corr fails with the domain
\* error for M > 1 and returns nothing, at M = 1 exactly it raises no domain
\* error and returns a non-finite slope; without M_corr it returns normally
\* for every M >= 0.  eval_coeffs of 'flat_plate' and of 'xRotor' fails for
\* every M >= 1 whatever M_corr is (domain error for M > 1, division by
\* zero at M = 1); eval_coeffs of 'xFoil' fails at Mach only with M_corr and
\* M > 1.  No call fails at Mach for M < 1, and the M > 0.7 advisory alone
\* never aborts a call.
C7_MachFailureCases ==
    /\ LiftInputsGiven =>
          /\ (M_corr /\ Mach > Scale) =>
                Raised("DomainError") /\ MachFailure /\ outcome.value = <<>>
          /\ (M_corr /\ Mach = Scale) => Returned /\ outcome.nonfinite
          /\ (~M_corr \/ Mach < Scale) => Returned /\ ~outcome.nonfinite
          /\ Entered("advisory") <=> Mach > 700
    /\ (IsLift /\ MachFailure) => M_corr /\ Mach > Scale
    /\ (CoeffsInputsGiven /\ aero_method \in {"flat_plate", "xRotor"}) =>
          /\ Mach > Scale => Raised("DomainError") /\ MachFailure
          /\ Mach = Scale => Raised("ZeroDivisionError") /\ MachFailure
    /\ (CoeffsInputsGiven /\ aero_method = "xFoil") =>
          /\ MachFailure => Raised("DomainError") /\ M_corr /\ Mach > Scale
          /\ (M_corr /\ Mach > Scale /\ ~(Rey_corr /\ call.args.Re = 0)) => MachFailure
          /\ (M_corr /\ Mach = Scale /\ Returned) => outcome.nonfinite
    /\ (IsCoeffs /\ MachFailure) => CoeffsInputsGiven /\ Mach >= Scale
    /\ IsCoeffs => ~Entered("advisory")

C7_Witness ==
    /\ IsCoeffs /\ aero_method = "flat_plate"
    /\ ~M_corr /\ call.args.M = 1250
    /\ Raised("DomainError") /\ MachFailure

\* C8: for the 'xRotor' variant the returned Cd is at least the base drag
\* Cd_base = (Cd_min + dCd_dCl2 (Cl - Cl_at_cd_min)^2) RCORR; the post-stall
\* term DCD is >= 0; the compressibility term CDC is 0 for M < CRITMACH and
\* CDMFACTOR (M - CRITMACH)^MEXP >= 0 otherwise, non-decreasing in M.
C8_XRotorDragAboveBase ==
    (IsCoeffs /\ aero_method = "xRotor" /\ Returned)
        => LET loc  == outcome.locals
               crit == loc.CRITMACH
               dcl  == Cl - Val(call.args.Cl_at_cd_min)
               cdc(m) == IF m < crit THEN 0
                         ELSE LET d == m - crit
                              IN  (10000 * ((((d * d) \div 1000) * d) \div 1000)) \div 1000
           IN  /\ loc.Cd_base =
                     FxMul(Val(call.args.Cd_min)
                              + FxMul(Val(call.args.dCd_dCl2), FxMul(dcl, dcl)), loc.RCORR)
               /\ Cd >= loc.Cd_base
               /\ Cd = loc.Cd_base + loc.DCD + loc.CDC
               /\ loc.DCD >= 0
               /\ loc.CDC = cdc(Mach)
               /\ loc.CDC >= 0
               /\ \A m1 \in 0..20, m2 \in 0..20 : m1 <= m2 => cdc(50 * m1) <= cdc(50 * m2)

C8_Witness ==
    /\ IsCoeffs /\ aero_method = "xRotor" /\ Returned
    /\ Mach >= outcome.locals.CRITMACH
    /\ outcome.locals.CDC > 0 /\ outcome.locals.DCD > 0
    /\ Cd > outcome.locals.Cd_base

\* C9 as claimed: the stall limiter CLLIM = Cl_incr_to_stall
\* ln((1 + ECMAX)/(1 + ECMIN)) is >= 0 for every Cl_lin, CLMAX, CLMIN and
\* Cl_incr_to_stall > 0.
C9_CLLIMNonNegative ==
    (IsCoeffs /\ aero_method = "xRotor" /\ Returned) => outcome.locals.CLLIM >= 0

\* C9 as amended: CLLIM is >= 0 whenever Cl_lin - CLMAX >= CLMIN - Cl_lin,
\* in particular whenever Cl_lin >= CLMAX >= CLMIN, and <= 0 whenever
\* Cl_lin - CLMAX <= CLMIN - Cl_lin.
C9_CLLIMSignFollowsMidpoint ==
    (IsCoeffs /\ aero_method = "xRotor" /\ Returned)
        => LET loc == outcome.locals
           IN  /\ loc.Cl_lin - loc.CLMAX >= loc.CLMIN - loc.Cl_lin => loc.CLLIM >= 0
               /\ loc.Cl_lin - loc.CLMAX <= loc.CLMIN - loc.Cl_lin => loc.CLLIM <= 0
               /\ (loc.Cl_lin >= loc.CLMAX /\ loc.CLMAX >= loc.CLMIN) => loc.CLLIM >= 0
               /\ (loc.Cl_lin > loc.CLMAX + 1000 /\ loc.CLMAX >= loc.CLMIN) => loc.CLLIM > 0
               /\ (loc.Cl_lin < loc.CLMIN - 1000 /\ loc.CLMAX >= loc.CLMIN) => loc.CLLIM < 0

C9_Witness ==
    /\ IsCoeffs /\ aero_method = "xRotor" /\ Returned
    /\ 2 * outcome.locals.Cl_lin < outcome.locals.CLMAX + outcome.locals.CLMIN
    /\ Val(call.args.Cl_incr_to_stall) > 0
    /\ outcome.locals.CLLIM < 0

\* C10: a call of eval_lift_properties or eval_coeffs leaves aero_method,
\* M_corr, Rey_corr and alpha_vec as the constructor set them, so the result
\* of a call is the evaluator's result on its own arguments and the
\* configuration at construction, whatever calls came before.
C10_EvaluationLeavesEvaluatorUnchanged ==
    [][/\ aero_method' = aero_method
       /\ M_corr' = M_corr
       /\ Rey_corr' = Rey_corr
       /\ alpha_vec' = alpha_vec
       /\ (pc' = "done" /\ call'.op = "eval_coeffs")
             => outcome' = eval_coeffs(self, call'.args)
       /\ (pc' = "done" /\ call'.op = "eval_lift_properties")
             => outcome' = eval_lift_properties(self, call'.args)]_vars

C10_Witness ==
    /\ pc = "done" /\ ncalls >= 2
    /\ aero_method = "xFoil" /\ alpha_vec # None
    /\ call.op = "eval_coeffs" /\ Returned

====
